---- MODULE Spec2Model ----
(***************************************************************************)
(* Loan Tracker API (src/main.py, src/schemas.py).                         *)
(*                                                                         *)
(* Three collections of a document store (customer, partner, loan), the    *)
(* create/list handlers over them, and the admission logic of create_loan: *)
(* the two reference checks, the commission computed for a funded loan     *)
(* and the funded_date default.                                            *)
(*                                                                         *)
(* Representation.                                                         *)
(*   - Optional[T]: a sequence of length <= 1, <<>> for None, <<v>> for v. *)
(*   - an identifier string (customer_id, partner_id, "id"): the sequence  *)
(*     of its characters.                                                  *)
(*   - an ObjectId: its bytes, as the sequence of their hexadecimal digits *)
(*     (each 0..15; 24 of them for the 12 bytes of an assigned id).        *)
(*   - amount: a whole number of currency units (a float with an integral  *)
(*     value).                                                             *)
(*   - commission_rate: quarters of a percent (rate = rq / 4, a float that *)
(*     is exact in binary), so amount * rate is exact and                  *)
(*     amount * rate / 100 is (amount * rq) / 400.                         *)
(*   - commission_amount: cents.                                           *)
(*   - a date: a day number.                                               *)
(*                                                                         *)
(* Specifications.                                                         *)
(*   - Spec: the handlers run in a pool of threads.  create_loan is one    *)
(*     step per store call and one for the clock it reads; the steps of    *)
(*     two create_loan requests interleave with each other, with           *)
(*     create_customer and create_partner requests and with midnight.  A   *)
(*     store call may fail.                                                *)
(*   - SpecCalls: the handlers that make a single store call               *)
(*     (create_customer, create_partner and the three listings), over      *)
(*     stores of several loans, with the request and the response kept.    *)
(***************************************************************************)
EXTENDS Integers, Sequences, FiniteSets, TLC

(* ---------------------------------------------------------------- bounds *)

\* Customers (partners) created while the loan requests are handled.
MaxCustomers == 1

MaxPartners == 1

\* Days the clock may reach.
MaxDate == 2

\* Loans in a store that is listed.
MaxListed == 3

\* Whole amounts 1..MaxAmount a loan request may carry (besides 1000).
MaxAmount == 1

\* Documents the store may come to hold: the two it starts with, the loans
\* listed or the two requested, and those created meanwhile.
MaxDocs == 2 + MaxListed + MaxCustomers + MaxPartners

(* ------------------------------------------------------------- optionals *)

None == <<>>

Some(v) == <<v>>

IsSome(o) == Len(o) = 1

Get(o) == o[1]

(* ------------------------------------------------------------- ObjectId  *)

HexChars == <<"0", "1", "2", "3", "4", "5", "6", "7", "8", "9", "a", "b", "c", "d", "e", "f">>

UpperHexChars == <<"0", "1", "2", "3", "4", "5", "6", "7", "8", "9", "A", "B", "C", "D", "E", "F">>

\* The value of each hexadecimal digit, in either letter case.
HexValues ==
    [c \in {HexChars[i] : i \in 1..16} \cup {UpperHexChars[i] : i \in 1..16} |->
        (CHOOSE i \in 1..16 : HexChars[i] = c \/ UpperHexChars[i] = c) - 1]

\* The value of a hexadecimal digit, -1 for any other character.
HexValue(c) == IF c \in DOMAIN HexValues THEN HexValues[c] ELSE -1

\* ASCII whitespace: space, tab, line feed, vertical tab (the raw character,
\* which has no escape), form feed, carriage return.
Whitespace == {" ", "\t", "\n", "", "\f", "\r"}

RECURSIVE FromHex(_, _)
\* bytes.fromhex(s) from position i on, as the hexadecimal digits of the
\* bytes: whitespace before a byte is skipped, a byte is two adjacent digits
\* in either letter case; anything else is an error, marked by a -1.
FromHex(s, i) ==
    IF i > Len(s) THEN <<>>
    ELSE IF s[i] \in Whitespace THEN FromHex(s, i + 1)
    ELSE IF i < Len(s) /\ HexValue(s[i]) >= 0 /\ HexValue(s[i + 1]) >= 0
      THEN <<HexValue(s[i]), HexValue(s[i + 1])>> \o FromHex(s, i + 2)
    ELSE <<-1>>

\* ObjectId(s) does not raise InvalidId: s is 24 characters that
\* bytes.fromhex accepts.
IsValidOid(s) ==
    /\ Len(s) = 24
    /\ LET digits == FromHex(s, 1) IN \A i \in 1..Len(digits) : digits[i] >= 0

\* ObjectId(s): the identifier parsed from its string; the caller checks
\* IsValidOid first.  Two strings that differ in letter case only parse to
\* the same ObjectId; 24 characters some of which are whitespace parse to
\* fewer than 12 bytes.
ObjectId(s) == FromHex(s, 1)

\* str(ObjectId): the hexadecimal digits of its bytes, in lower case.
OidStr(oid) == [i \in 1..Len(oid) |-> HexChars[oid[i] + 1]]

RECURSIVE HexDigits(_, _)
\* The `width` hexadecimal digits of n, most significant first.
HexDigits(n, width) ==
    IF width = 0 THEN <<>>
    ELSE Append(HexDigits(n \div 16, width - 1), n % 16)

\* The ObjectId the store gives its k-th document: distinct for distinct k.
\* (The model's end in a1, a2, ...)
NewOidTable == [k \in 0..MaxDocs |-> HexDigits(160 + k, 24)]

NewObjectId(k) == NewOidTable[k]

(* ----------------------------------------------------- float arithmetic  *)

RECURSIVE MantissaRem(_, _, _, _)
\* The division num/den carried on for `bits` more binary digits from
\* remainder r: <<last quotient bit, final remainder>>.
MantissaRem(r, den, bits, last) ==
    IF bits = 0 THEN <<last, r>>
    ELSE MantissaRem((2 * r) % den, den, bits - 1, (2 * r) \div den)

RECURSIVE BitLength(_)
BitLength(q) == IF q = 0 THEN 0 ELSE 1 + BitLength(q \div 2)

RECURSIVE SkipLeadingZeros(_, _)
\* For 0 < r < den: the remainder right after the first 1 bit of r/den.
SkipLeadingZeros(r, den) ==
    IF 2 * r >= den THEN 2 * r - den ELSE SkipLeadingZeros(2 * r, den)

\* The sign of fl(num/den) - num/den, where fl is the IEEE-754 double nearest
\* to the quotient (53 significant bits, ties to even): what x / 100.0 yields.
FloatDir(num, den) ==
    LET q0 == num \div den
        r0 == num % den
        mr == IF q0 > 0
                THEN MantissaRem(r0, den, 53 - BitLength(q0), q0 % 2)
                ELSE MantissaRem(SkipLeadingZeros(r0, den), den, 52, 1)
        last == mr[1]
        r    == mr[2]
    IN  IF r0 = 0 \/ r = 0 THEN 0
        ELSE IF 2 * r < den THEN -1
        ELSE IF 2 * r > den THEN 1
        ELSE IF last = 1 THEN 1 ELSE -1

\* round(x, 2) of the double x = fl(n / 400), in cents.  Python rounds the
\* exact binary value of x correctly, half to even: away from an exact
\* decimal tie unless x itself is the tie.
Round2(n) ==
    LET k   == n \div 4
        rem == n % 4
    IN  IF rem = 0 \/ rem = 1 THEN k
        ELSE IF rem = 3 THEN k + 1
        ELSE LET dir == FloatDir(n \div 2, 200)
             IN  IF dir = 1 THEN k + 1
                 ELSE IF dir = -1 THEN k
                 ELSE IF k % 2 = 0 THEN k ELSE k + 1

(* --------------------------------------------------------------- schemas *)

Statuses == {"applied", "approved", "funded", "rejected", "closed"}

\* Partner.commission_rate's default, 5.0 percent.
PartnerDefaultRate == 5 * 4

\* Customer: first_name and last_name are required.  The fields a payload
\* fails on.
CustomerErrors(raw) ==
    {f \in {"first_name", "last_name"} : ~IsSome(raw[f])}

ValidCustomer(raw) == CustomerErrors(raw) = {}

CustomerSchema(raw) ==
    [first_name |-> Get(raw.first_name), last_name |-> Get(raw.last_name)]

\* Partner: name is required; commission_rate has ge=0, le=100.
\* Variant: commission_rate declared without le=100.
PartnerErrors_NoUpperBound(raw) ==
    {f \in {"name"} : ~IsSome(raw.name)}
    \cup {f \in {"commission_rate"} :
            IsSome(raw.commission_rate) /\ ~(Get(raw.commission_rate) >= 0)}

PartnerErrors(raw) ==
    {f \in {"name"} : ~IsSome(raw.name)}
    \cup {f \in {"commission_rate"} :
            IsSome(raw.commission_rate)
            /\ ~(Get(raw.commission_rate) >= 0 /\ Get(raw.commission_rate) <= 100 * 4)}

ValidPartner(raw) == PartnerErrors(raw) = {}

PartnerSchema(raw) ==
    [name |-> Get(raw.name),
     commission_rate |-> IF IsSome(raw.commission_rate)
                           THEN Get(raw.commission_rate)
                           ELSE PartnerDefaultRate]

\* Loan: customer_id and amount are required, amount has gt=0, status is one
\* of the literals, commission_amount has ge=0.
LoanErrors(raw) ==
    {f \in {"customer_id"} : ~IsSome(raw.customer_id)}
    \cup {f \in {"amount"} : ~(IsSome(raw.amount) /\ Get(raw.amount) > 0)}
    \cup {f \in {"status"} : IsSome(raw.status) /\ Get(raw.status) \notin Statuses}
    \cup {f \in {"commission_amount"} :
            IsSome(raw.commission_amount) /\ ~(Get(raw.commission_amount) >= 0)}

ValidLoan(raw) == LoanErrors(raw) = {}

LoanSchema(raw) ==
    [customer_id       |-> Get(raw.customer_id),
     partner_id        |-> raw.partner_id,
     amount            |-> Get(raw.amount),
     status            |-> IF IsSome(raw.status) THEN Get(raw.status) ELSE "applied",
     funded_date       |-> raw.funded_date,
     commission_amount |-> raw.commission_amount]

(* ------------------------------------------------- document store adapter *)

\* The store: the three collections, each in insertion order, and the number
\* of the next document.
EmptyStore == [customer |-> <<>>, partner |-> <<>>, loan |-> <<>>, next |-> 1]

\* The document `data` with its _id.
WithId(data, oid) ==
    [k \in DOMAIN data \cup {"_id"} |-> IF k = "_id" THEN oid ELSE data[k]]

\* create_document(collection, data): insert, return str(inserted_id);
\* raises when the store is unreachable (~ok).
create_document(store, coll, data, ok) ==
    IF ~ok
      THEN [raised |-> TRUE, id |-> <<>>, store |-> store]
      ELSE [raised |-> FALSE,
            id     |-> OidStr(NewObjectId(store.next)),
            store  |-> [store EXCEPT ![coll] = Append(@, WithId(data, NewObjectId(store.next))),
                                     !.next = @ + 1]]

Matches(doc, filt) == \A k \in DOMAIN filt : k \in DOMAIN doc /\ doc[k] = filt[k]

\* get_documents(collection, filter): the documents matching the equality
\* filter (None: all of them), in insertion order.
get_documents(store, coll, filt, ok) ==
    IF ~ok
      THEN [raised |-> TRUE, docs |-> <<>>]
      ELSE [raised |-> FALSE,
            docs   |-> IF IsSome(filt)
                         THEN SelectSeq(store[coll], LAMBDA d : Matches(d, Get(filt)))
                         ELSE store[coll]]

\* db.<coll>.find_one({"_id": oid}): the document or None; raises when the
\* store is unreachable.
find_one(store, coll, oid, ok) ==
    IF ~ok
      THEN [raised |-> TRUE, doc |-> None]
      ELSE LET hits == SelectSeq(store[coll], LAMBDA d : d._id = oid)
           IN  [raised |-> FALSE,
                doc    |-> IF hits = <<>> THEN None ELSE Some(Head(hits))]

(* ------------------------------------------------------------ main.py    *)

\* serialize_doc: "_id" popped and rendered as the string "id".  (The model's
\* documents hold no datetime value; a date is left as it is.)
serialize_doc(doc) ==
    [k \in (DOMAIN doc \ {"_id"}) \cup {"id"} |->
        IF k = "id" THEN OidStr(doc._id) ELSE doc[k]]

Passed == [code |-> 200, detail |-> "", raised |-> FALSE]

Http400(detail, raised) == [code |-> 400, detail |-> detail, raised |-> raised]

\* create_loan, the customer reference check.  An empty customer_id is falsy
\* and skips the check.  ObjectId() raising on a malformed string, find_one
\* raising, and the HTTPException raised for a missing customer are all caught
\* by `except Exception` and become the "format" error.
CheckCustomer(store, payload, ok) ==
    IF payload.customer_id = <<>> THEN Passed
    ELSE IF ~IsValidOid(payload.customer_id)
      THEN Http400("Invalid customer_id format", FALSE)
    ELSE LET found == find_one(store, "customer", ObjectId(payload.customer_id), ok)
         IN  IF found.raised THEN Http400("Invalid customer_id format", TRUE)
             ELSE IF ~IsSome(found.doc) THEN Http400("Invalid customer_id format", FALSE)
             ELSE Passed

\* create_loan, the partner reference check: the same, for an Optional[str]
\* (None and "" are both falsy).
CheckPartner(store, payload, ok) ==
    IF ~IsSome(payload.partner_id) \/ payload.partner_id = Some(<<>>) THEN Passed
    ELSE IF ~IsValidOid(Get(payload.partner_id))
      THEN Http400("Invalid partner_id format", FALSE)
    ELSE LET found == find_one(store, "partner", ObjectId(Get(payload.partner_id)), ok)
         IN  IF found.raised THEN Http400("Invalid partner_id format", TRUE)
             ELSE IF ~IsSome(found.doc) THEN Http400("Invalid partner_id format", FALSE)
             ELSE Passed

\* Whether create_loan looks the partner's rate up: data.get("partner_id") is
\* truthy.
HasPartner(data) == IsSome(data.partner_id) /\ data.partner_id # Some(<<>>)

\* create_loan, "fetch partner rate": 0.0 unless the partner is found and
\* carries a commission_rate.  Not inside a try: ObjectId() or find_one
\* raising is an unhandled exception.
PartnerRate(store, data, ok) ==
    IF ~HasPartner(data) THEN [raised |-> FALSE, store_error |-> FALSE, rate |-> 0]
    ELSE IF ~IsValidOid(Get(data.partner_id))
      THEN [raised |-> TRUE, store_error |-> FALSE, rate |-> 0]
    ELSE LET found == find_one(store, "partner", ObjectId(Get(data.partner_id)), ok)
         IN  IF found.raised THEN [raised |-> TRUE, store_error |-> TRUE, rate |-> 0]
             ELSE IF IsSome(found.doc) /\ "commission_rate" \in DOMAIN Get(found.doc)
               THEN [raised |-> FALSE, store_error |-> FALSE,
                     rate |-> Get(found.doc).commission_rate]
             ELSE [raised |-> FALSE, store_error |-> FALSE, rate |-> 0]

\* Variant: the funded branch taken for every status.
IsFunded_AnyStatus(data) == data.status \in Statuses

\* if data.get("status") == "funded"
IsFunded(data) == data.status = "funded"

\* commission = round((data["amount"] * rate) / 100.0, 2), in cents.
Commission(amount, rate) == Round2(amount * rate)

\* create_loan, the funded branch: commission_amount is set, funded_date is
\* defaulted to today's UTC date when falsy.
\* Variant: the funded branch without the commission.
Funded_NoCommission(data, rate, today) ==
    [data EXCEPT !.funded_date = IF IsSome(@) THEN @ ELSE Some(today)]

\* Variant: the commission computed only when the request carries none.
Funded_KeepSupplied(data, rate, today) ==
    [data EXCEPT !.commission_amount =
                     IF IsSome(@) THEN @ ELSE Some(Round2(data.amount * rate)),
                 !.funded_date = IF IsSome(@) THEN @ ELSE Some(today)]

\* Variant: funded_date overwritten whether supplied or not.
Funded_AlwaysToday(data, rate, today) ==
    [data EXCEPT !.commission_amount = Some(Round2(data.amount * rate)),
                 !.funded_date = Some(today)]

Funded(data, rate, today) ==
    [data EXCEPT !.commission_amount = Some(Commission(data.amount, rate)),
                 !.funded_date = IF IsSome(@) THEN @ ELSE Some(today)]

\* A response; `invalid` holds the fields a 422 names, and `store_error` tells
\* whether a store call raised while the request was handled.
Response(op, code, detail, id, items, store_error) ==
    [op |-> op, code |-> code, detail |-> detail, id |-> id, items |-> items,
     invalid |-> {}, store_error |-> store_error]

Outcome(store, response) == [store |-> store, response |-> response]

Http500(store, op, store_error) ==
    Outcome(store, Response(op, 500, "Internal Server Error", None, <<>>, store_error))

Http422(store, op, fields) ==
    Outcome(store, [Response(op, 422, "validation error", None, <<>>, FALSE)
                      EXCEPT !.invalid = fields])

\* POST /api/loans, handled with no other request running between its store
\* calls (the store and the date are the same at each).  `fail` names the
\* store call that raises, if it is made: 1 the customer lookup, 2 the partner
\* lookup, 3 the rate lookup, 4 the insert; 0 none.
create_loan(store, today, raw, fail) ==
    IF ~ValidLoan(raw) THEN Http422(store, "create_loan", LoanErrors(raw))
    ELSE
    LET payload == LoanSchema(raw)
        cust    == CheckCustomer(store, payload, fail # 1)
        part    == CheckPartner(store, payload, fail # 2)
        looked  == PartnerRate(store, payload, fail # 3)
        data    == IF IsFunded(payload)
                     THEN Funded(payload, looked.rate, today)
                     ELSE payload
        created == create_document(store, "loan", data, fail # 4)
    IN  IF cust.code # 200
          THEN Outcome(store, Response("create_loan", cust.code, cust.detail, None, <<>>,
                                       cust.raised))
        ELSE IF part.code # 200
          THEN Outcome(store, Response("create_loan", part.code, part.detail, None, <<>>,
                                       part.raised))
        ELSE IF IsFunded(payload) /\ looked.raised
          THEN Http500(store, "create_loan", looked.store_error)
        ELSE IF created.raised
          THEN Http500(store, "create_loan", TRUE)
        ELSE Outcome(created.store,
                     Response("create_loan", 200, "", Some(created.id), <<>>, FALSE))

\* POST /api/customers and POST /api/partners.
create_customer(store, raw, ok) ==
    IF ~ValidCustomer(raw) THEN Http422(store, "create_customer", CustomerErrors(raw))
    ELSE LET created == create_document(store, "customer", CustomerSchema(raw), ok)
         IN  IF created.raised THEN Http500(store, "create_customer", TRUE)
             ELSE Outcome(created.store,
                          Response("create_customer", 200, "", Some(created.id), <<>>, FALSE))

create_partner(store, raw, ok) ==
    IF ~ValidPartner(raw) THEN Http422(store, "create_partner", PartnerErrors(raw))
    ELSE LET created == create_document(store, "partner", PartnerSchema(raw), ok)
         IN  IF created.raised THEN Http500(store, "create_partner", TRUE)
             ELSE Outcome(created.store,
                          Response("create_partner", 200, "", Some(created.id), <<>>, FALSE))

Serialized(docs) == [i \in 1..Len(docs) |-> serialize_doc(docs[i])]

\* GET /api/customers and GET /api/partners.
list_documents(store, op, coll, ok) ==
    LET got == get_documents(store, coll, None, ok)
    IN  IF got.raised THEN Http500(store, op, TRUE)
        ELSE Outcome(store, Response(op, 200, "", None, Serialized(got.docs), FALSE))

\* Variant: the status parameter dropped.
StatusFilter_Ignored(status) == None

\* list_loans' filter: {"status": status} if status else None.
StatusFilter(status) ==
    IF IsSome(status) /\ Get(status) # "" THEN Some([status |-> Get(status)]) ELSE None

\* GET /api/loans?status=...  A stored customer_id or partner_id is a str,
\* never an ObjectId, so the enrichment lookups are not made.
list_loans(store, status, ok) ==
    LET got == get_documents(store, "loan", StatusFilter(status), ok)
    IN  IF got.raised THEN Http500(store, "list_loans", TRUE)
        ELSE Outcome(store, Response("list_loans", 200, "", None, Serialized(got.docs), FALSE))

(* ------------------------------------------------------------- requests  *)

\* The store the requests find: one customer and one partner (at the default
\* rate), created through the API.
SeedStore ==
    create_partner(
        create_customer(EmptyStore, [first_name |-> Some("Ann"), last_name |-> Some("Lee")],
                        TRUE).store,
        [name |-> Some("Acme"), commission_rate |-> None], TRUE).store

\* The identifier of the stored customer (partner), as str() renders it.
CustomerId == OidStr(SeedStore.customer[1]._id)

PartnerId == OidStr(SeedStore.partner[1]._id)

\* The same identifier with its letters in upper case.
UpperCase(s) == [i \in 1..Len(s) |-> IF HexValue(s[i]) >= 0
                                       THEN UpperHexChars[HexValue(s[i]) + 1]
                                       ELSE s[i]]

\* 24 characters that are not all hexadecimal digits, and 23 that are.
NotHex == [CustomerId EXCEPT ![1] = "g"]

TooShort == Tail(CustomerId)

\* 24 characters that parse to an ObjectId of 11 bytes: one byte less, a
\* space before and a vertical tab after.
Spaced == <<" ">> \o SubSeq(CustomerId, 3, 24) \o <<"">>

\* The identifier of the store's next document: whatever is created first
\* while the requests are handled, or nothing.
NextId == OidStr(NewObjectId(SeedStore.next))

\* The strings most requests carry as customer_id (partner_id).
CustomerIdStrings == {<<>>, CustomerId, UpperCase(CustomerId), NextId}

PartnerIdStrings == {<<>>, PartnerId, UpperCase(PartnerId), NextId}

Amounts == (1..MaxAmount) \cup {1000}

CustomerPayloads == [first_name : {None, Some("Ann")}, last_name : {None, Some("Lee")}]

PartnerPayloads ==
    [name : {None, Some("Acme")},
     commission_rate : {None} \cup {Some(r) : r \in {-1, 0, 14, 15, 100 * 4, 100 * 4 + 1}}]

\* A payload to vary.
BaseLoanPayload ==
    [customer_id |-> Some(CustomerId), partner_id |-> None, amount |-> Some(1000),
     status |-> Some("funded"), funded_date |-> None, commission_amount |-> None]

\* Loan payloads the schema accepts: every pair of references, every amount
\* for a partner created meanwhile, and for the stored customer every
\* combination of the other fields.
AcceptedLoanPayloads ==
    {[BaseLoanPayload EXCEPT !.customer_id = Some(c), !.partner_id = p, !.status = st] :
        c \in CustomerIdStrings,
        p \in {None} \cup {Some(s) : s \in PartnerIdStrings},
        st \in {None, Some("funded")}}
    \cup {[BaseLoanPayload EXCEPT !.customer_id = Some(s)] : s \in {NotHex, TooShort, Spaced, PartnerId}}
    \cup {[BaseLoanPayload EXCEPT !.partner_id = Some(s)] : s \in {NotHex, TooShort, Spaced, CustomerId}}
    \cup {[BaseLoanPayload EXCEPT !.partner_id = Some(NextId), !.amount = Some(a)] :
              a \in Amounts}
    \cup [customer_id       : {Some(CustomerId)},
          partner_id        : {None, Some(PartnerId)},
          amount            : {Some(a) : a \in Amounts},
          status            : {None, Some("funded"), Some("closed")},
          funded_date       : {None, Some(1)},
          commission_amount : {None, Some(7)}]

\* Loan payloads the schema rejects.
RejectedLoanPayloads ==
    {[BaseLoanPayload EXCEPT !.customer_id = None],
     [BaseLoanPayload EXCEPT !.amount = None],
     [BaseLoanPayload EXCEPT !.amount = Some(0)],
     [BaseLoanPayload EXCEPT !.amount = Some(-1)],
     [BaseLoanPayload EXCEPT !.status = Some("bogus")],
     [BaseLoanPayload EXCEPT !.commission_amount = Some(-1)]}

LoanPayloads == AcceptedLoanPayloads \cup RejectedLoanPayloads

\* The create_loan requests handled at the same time as one of LoanPayloads:
\* for the stored customer and partner.
RivalPayloads ==
    [customer_id       : {Some(CustomerId)},
     partner_id        : {Some(PartnerId)},
     amount            : {Some(1)},
     status            : {None, Some("funded")},
     funded_date       : {None},
     commission_amount : {None}]

\* The create_customer and create_partner requests handled meanwhile.
MeanwhileCustomerPayloads ==
    {[first_name |-> Some("Ann"), last_name |-> Some("Lee")],
     [first_name |-> Some("Ann"), last_name |-> None]}

MeanwhilePartnerPayloads ==
    [name : {Some("Acme")}, commission_rate : {Some(r) : r \in {-1, 15, 100 * 4 + 1}}]

StatusParams == {None, Some(""), Some("funded"), Some("closed"), Some("applied"), Some("bogus")}

\* The requests of the single-call handlers.
Requests ==
    {[op |-> "create_customer", arg |-> c] : c \in CustomerPayloads}
    \cup {[op |-> "create_partner", arg |-> c] : c \in PartnerPayloads}
    \cup {[op |-> "list_customers", arg |-> None], [op |-> "list_partners", arg |-> None]}
    \cup {[op |-> "list_loans", arg |-> c] : c \in StatusParams}

NoRequest == [op |-> "none", arg |-> None]

NoResponse == Response("none", 0, "", None, <<>>, FALSE)

(* ------------------------------------------------------------------ state *)

VARIABLES
    db,     \* the document store
    today,  \* the current UTC date
    pc,     \* each thread's position in create_loan
    loc,    \* each thread's locals
    req,    \* single-call handlers: the request being handled
    resp    \* single-call handlers: the response to the last request handled

vars == <<db, today, pc, loc, req, resp>>

\* The threads create_loan runs in.
Workers == {1, 2}

\* payload: the request body; started: the date the request arrived on;
\* data, rate: create_loan's locals; response: what the request was answered.
IdleLocals == [payload |-> BaseLoanPayload, started |-> 1,
               data |-> LoanSchema(BaseLoanPayload), rate |-> 0, response |-> NoResponse]

Init ==
    /\ db = SeedStore
    /\ today = 1
    /\ pc = [w \in Workers |-> "idle"]
    /\ loc = [w \in Workers |-> IdleLocals]
    /\ req = NoRequest
    /\ resp = NoResponse

\* The request bodies thread w is given.
PayloadsOf(w) == IF w = 1 THEN LoanPayloads ELSE RivalPayloads

\* Thread w ends its request with `response`.
Finish(w, response) ==
    /\ pc' = [pc EXCEPT ![w] = "done"]
    /\ loc' = [loc EXCEPT ![w].response = response]

\* Thread w goes on to `label`.
Goto(w, label) == pc' = [pc EXCEPT ![w] = label]

\* A create_loan request reaches thread w; the schema validates it.
Accept(w, raw) ==
    /\ pc[w] = "idle"
    /\ IF ValidLoan(raw)
         THEN /\ Goto(w, "customer")
              /\ loc' = [loc EXCEPT ![w].payload = raw, ![w].started = today,
                                    ![w].data = LoanSchema(raw)]
         ELSE /\ pc' = [pc EXCEPT ![w] = "done"]
              /\ loc' = [loc EXCEPT ![w].payload = raw, ![w].started = today,
                                    ![w].response =
                                        Http422(db, "create_loan", LoanErrors(raw)).response]
    /\ UNCHANGED <<db, today, req, resp>>

\* create_loan's customer lookup.
LookupCustomer(w) ==
    /\ pc[w] = "customer"
    /\ \E ok \in BOOLEAN :
          LET r == CheckCustomer(db, loc[w].data, ok)
          IN  IF r.code = 200
                THEN Goto(w, "partner") /\ UNCHANGED loc
                ELSE Finish(w, Response("create_loan", r.code, r.detail, None, <<>>, r.raised))
    /\ UNCHANGED <<db, today, req, resp>>

\* create_loan's partner lookup, and the branch on the status.
LookupPartner(w) ==
    /\ pc[w] = "partner"
    /\ \E ok \in BOOLEAN :
          LET r == CheckPartner(db, loc[w].data, ok)
          IN  IF r.code = 200
                THEN /\ Goto(w, IF IsFunded(loc[w].data) THEN "rate" ELSE "insert")
                     /\ UNCHANGED loc
                ELSE Finish(w, Response("create_loan", r.code, r.detail, None, <<>>, r.raised))
    /\ UNCHANGED <<db, today, req, resp>>

\* Variant: the rate kept in a module-level variable every request shares.
LookupRate_Shared(w) ==
    /\ pc[w] = "rate"
    /\ \E ok \in BOOLEAN :
          LET r == PartnerRate(db, loc[w].data, ok)
          IN  IF r.raised
                THEN Finish(w, Http500(db, "create_loan", r.store_error).response)
                ELSE /\ Goto(w, "stamp")
                     /\ loc' = [v \in Workers |-> [loc[v] EXCEPT !.rate = r.rate]]
    /\ UNCHANGED <<db, today, req, resp>>

\* create_loan's rate lookup, into the local `rate`.
LookupRate(w) ==
    /\ pc[w] = "rate"
    /\ \E ok \in BOOLEAN :
          LET r == PartnerRate(db, loc[w].data, ok)
          IN  IF r.raised
                THEN Finish(w, Http500(db, "create_loan", r.store_error).response)
                ELSE /\ Goto(w, "stamp")
                     /\ loc' = [loc EXCEPT ![w].rate = r.rate]
    /\ UNCHANGED <<db, today, req, resp>>

\* create_loan's commission and funded_date, reading the clock.
Stamp(w) ==
    /\ pc[w] = "stamp"
    /\ Goto(w, "insert")
    /\ loc' = [loc EXCEPT ![w].data = Funded(@, loc[w].rate, today)]
    /\ UNCHANGED <<db, today, req, resp>>

\* create_loan's insert, and its response.
Insert(w) ==
    /\ pc[w] = "insert"
    /\ \E ok \in BOOLEAN :
          LET created == create_document(db, "loan", loc[w].data, ok)
          IN  IF created.raised
                THEN /\ Finish(w, Http500(db, "create_loan", TRUE).response)
                     /\ UNCHANGED db
                ELSE /\ Finish(w, Response("create_loan", 200, "", Some(created.id), <<>>,
                                           FALSE))
                     /\ db' = created.store
    /\ UNCHANGED <<today, req, resp>>

\* A create_customer (create_partner) request handled meanwhile: one store call.
Meanwhile(outcome) ==
    /\ db' = outcome.store
    /\ UNCHANGED <<today, pc, loc, req, resp>>

MeanwhileCreateCustomer ==
    /\ Len(db.customer) < Len(SeedStore.customer) + MaxCustomers
    /\ \E raw \in MeanwhileCustomerPayloads, ok \in BOOLEAN :
          Meanwhile(create_customer(db, raw, ok))

MeanwhileCreatePartner ==
    /\ Len(db.partner) < Len(SeedStore.partner) + MaxPartners
    /\ \E raw \in MeanwhilePartnerPayloads, ok \in BOOLEAN :
          Meanwhile(create_partner(db, raw, ok))

\* Midnight UTC passes.
Tick ==
    /\ today < MaxDate
    /\ today' = today + 1
    /\ UNCHANGED <<db, pc, loc, req, resp>>

Next ==
    \/ \E w \in Workers : \E raw \in PayloadsOf(w) : Accept(w, raw)
    \/ \E w \in Workers : LookupCustomer(w)
    \/ \E w \in Workers : LookupPartner(w)
    \/ \E w \in Workers : LookupRate(w)
    \/ \E w \in Workers : Stamp(w)
    \/ \E w \in Workers : Insert(w)
    \/ MeanwhileCreateCustomer
    \/ MeanwhileCreatePartner
    \/ Tick

Spec == Init /\ [][Next]_vars

(* -------------------------------------------------- single-call handlers *)

\* The create_loan requests whose loans the listed stores hold.
ListedPayloads ==
    {[BaseLoanPayload EXCEPT !.status = st, !.partner_id = Some(PartnerId)] :
        st \in {None, Some("funded"), Some("closed")}}

RECURSIVE StoreAfter(_, _)
\* The store after the create_loan requests `raws`, handled in turn.
StoreAfter(store, raws) ==
    IF raws = <<>> THEN store
    ELSE StoreAfter(create_loan(store, 1, Head(raws), 0).store, Tail(raws))

\* The handlers start from a store of up to MaxListed loans of one customer.
InitCalls ==
    /\ \E n \in 0..MaxListed : \E raws \in [1..n -> ListedPayloads] :
          db = StoreAfter(SeedStore, raws)
    /\ today = 1
    /\ pc = [w \in Workers |-> "idle"]
    /\ loc = [w \in Workers |-> IdleLocals]
    /\ req = NoRequest
    /\ resp = NoResponse

\* The collection a create request adds to.
Target(op) == IF op = "create_customer" THEN "customer" ELSE "partner"

\* The model's bound on a collection.
Capacity(coll) ==
    IF coll = "customer" THEN Len(SeedStore.customer) + MaxCustomers
    ELSE Len(SeedStore.partner) + MaxPartners

IsCreate(op) == op \in {"create_customer", "create_partner"}

\* The store has room for what the request may create.
HasRoom(store, op) == IsCreate(op) => Len(store[Target(op)]) < Capacity(Target(op))

\* A request arrives.
Request(r) ==
    /\ req = NoRequest
    /\ HasRoom(db, r.op)
    /\ req' = r
    /\ resp' = NoResponse
    /\ UNCHANGED <<db, today, pc, loc>>

Respond(outcome) ==
    /\ db' = outcome.store
    /\ resp' = outcome.response
    /\ req' = NoRequest
    /\ UNCHANGED <<today, pc, loc>>

CreateCustomer ==
    /\ req.op = "create_customer"
    /\ \E ok \in BOOLEAN : Respond(create_customer(db, req.arg, ok))

ListCustomers ==
    /\ req.op = "list_customers"
    /\ \E ok \in BOOLEAN : Respond(list_documents(db, "list_customers", "customer", ok))

CreatePartner ==
    /\ req.op = "create_partner"
    /\ \E ok \in BOOLEAN : Respond(create_partner(db, req.arg, ok))

ListPartners ==
    /\ req.op = "list_partners"
    /\ \E ok \in BOOLEAN : Respond(list_documents(db, "list_partners", "partner", ok))

ListLoans ==
    /\ req.op = "list_loans"
    /\ \E ok \in BOOLEAN : Respond(list_loans(db, req.arg, ok))

NextCalls ==
    \/ \E r \in Requests : Request(r)
    \/ CreateCustomer
    \/ ListCustomers
    \/ CreatePartner
    \/ ListPartners
    \/ ListLoans

SpecCalls == InitCalls /\ [][NextCalls]_vars

(* ================================================================ claims *)

\* The string s identifies the document of identifier oid: it is the 24
\* hexadecimal digits of oid, in either letter case.
Identifies(s, oid) ==
    /\ Len(s) = 24
    /\ \A i \in 1..24 : s[i] \in {HexChars[oid[i] + 1], UpperHexChars[oid[i] + 1]}

Customers(store) == {store.customer[i] : i \in 1..Len(store.customer)}

Partners(store) == {store.partner[i] : i \in 1..Len(store.partner)}

Loans(store) == {store.loan[i] : i \in 1..Len(store.loan)}

\* The string s identifies a stored customer (partner).
IsCustomer(store, s) == \E c \in Customers(store) : Identifies(s, c._id)

IsPartner(store, s) == \E p \in Partners(store) : Identifies(s, p._id)

\* Thread w's create_loan request has been answered.
Done(w) == pc[w] = "done"

\* It has been answered, and the schema accepted it.
DoneValid(w) == Done(w) /\ ValidLoan(loc[w].payload)

\* It has been answered 200.
DoneOk(w) == Done(w) /\ loc[w].response.code = 200

\* The loans stored under the identifier thread w's response carries.
StoredFor(w) == {d \in Loans(db) : Some(OidStr(d._id)) = loc[w].response.id}

\* Thread w's request was refused as a bad request and stored nothing.
Refused(w) == loc[w].response.code = 400 /\ loc[w].response.id = None

\* The rate of the partner a partner_id refers to, 0 when it refers to none.
ReferredRate(store, partner_id) ==
    IF IsSome(partner_id) /\ IsPartner(store, Get(partner_id))
      THEN LET p == CHOOSE q \in Partners(store) : Identifies(Get(partner_id), q._id)
           IN  IF "commission_rate" \in DOMAIN p THEN p.commission_rate ELSE 0
      ELSE 0

\* c cents is amount * rate / 100 rounded to the nearest cent (either way on a
\* tie), the rate being rq quarters of a percent.
NearestCent(c, amount, rq) == 4 * c - amount * rq <= 2 /\ amount * rq - 4 * c <= 2

\* Every stored loan is the one stored for some thread's request.
LoansAreAnswers ==
    \A d \in Loans(db) : \E w \in Workers : DoneOk(w) /\ d \in StoredFor(w)

\* C1 (as claimed): a create_loan request the schema accepts whose customer_id
\* identifies no stored Customer is answered 400 and stores no loan.  (No
\* customer is ever removed: one that is not stored once the request is
\* answered was not stored while it was handled.  Stated of the requests no
\* store call failed for.)
C1_UnknownCustomerRejected ==
    /\ LoansAreAnswers
    /\ \A w \in Workers :
          (/\ DoneValid(w)
           /\ ~loc[w].response.store_error
           /\ ~IsCustomer(db, Get(loc[w].payload.customer_id)))
             => Refused(w)

\* C2 (as claimed): a create_loan request for a stored Customer whose
\* partner_id is present and identifies no stored Partner is answered 400 and
\* stores no loan; the partner_id of a stored loan, when present, identifies a
\* stored Partner.  (Stated of the requests no store call failed for.)
C2_UnknownPartnerRejected ==
    /\ \A w \in Workers :
          (/\ DoneValid(w)
           /\ ~loc[w].response.store_error
           /\ IsCustomer(db, Get(loc[w].payload.customer_id))
           /\ IsSome(loc[w].payload.partner_id)
           /\ ~IsPartner(db, Get(loc[w].payload.partner_id)))
             => Refused(w)
    /\ \A d \in Loans(db) :
          (IsCustomer(db, d.customer_id) /\ IsSome(d.partner_id))
             => IsPartner(db, Get(d.partner_id))

\* C3 (as claimed): a stored loan has commission_amount populated if and only
\* if it was created with status "funded".  (Stated of the loans of stored
\* customers, which is where it already fails.)
C3_CommissionIffFunded ==
    \A d \in Loans(db) :
        IsCustomer(db, d.customer_id) =>
            (IsSome(d.commission_amount) <=> d.status = "funded")

\* C3 (amended): every stored loan created with status "funded" has
\* commission_amount populated; a stored loan created with any other status
\* has the commission_amount its request carried, so it is populated if and
\* only if the caller supplied one.
C3_FundedHasCommission ==
    /\ LoansAreAnswers
    /\ \A w \in Workers :
          DoneOk(w) =>
             /\ Cardinality(StoredFor(w)) = 1
             /\ \A d \in StoredFor(w) :
                   IF loc[w].payload.status = Some("funded")
                     THEN d.status = "funded" /\ IsSome(d.commission_amount)
                     ELSE /\ d.status # "funded"
                          /\ d.commission_amount = loc[w].payload.commission_amount
                          /\ IsSome(d.commission_amount)
                                <=> IsSome(loc[w].payload.commission_amount)
    /\ \A d \in Loans(db) : d.status = "funded" => IsSome(d.commission_amount)

C3_Witness ==
    /\ DoneOk(1)
    /\ loc[1].payload.status # Some("funded")
    /\ loc[1].payload.commission_amount = Some(7)
    /\ \E d \in StoredFor(1) : d.status # "funded" /\ d.commission_amount = Some(7)
    /\ DoneOk(2)
    /\ loc[2].payload.status = Some("funded")
    /\ loc[2].payload.commission_amount = None
    /\ \E d \in StoredFor(2) : d.status = "funded" /\ IsSome(d.commission_amount)

\* C4: a create_loan that stores a funded loan stores as commission_amount
\* amount * rate / 100 rounded to the cent, the rate being that of the partner
\* partner_id refers to, and 0 without one, whatever commission_amount the
\* request carried; amount 1000 at 5.0 percent gives 50.00.
C4_CommissionComputed ==
    \A w \in Workers :
        (DoneOk(w) /\ loc[w].payload.status = Some("funded"))
           => LET raw == loc[w].payload
                  rq  == ReferredRate(db, raw.partner_id)
                  a   == Get(raw.amount)
              IN  /\ Cardinality(StoredFor(w)) = 1
                  /\ \A d \in StoredFor(w) :
                        /\ d.amount = a
                        /\ IsSome(d.commission_amount)
                        /\ NearestCent(Get(d.commission_amount), a, rq)
                        /\ (a = 1000 /\ rq = 5 * 4) => d.commission_amount = Some(5000)
                        /\ ~IsSome(raw.partner_id) => d.commission_amount = Some(0)

C4_Witness ==
    /\ DoneOk(1)
    /\ loc[1].payload.customer_id = Some(UpperCase(CustomerId))
    /\ loc[1].payload.partner_id = Some(UpperCase(PartnerId))
    /\ \E d \in StoredFor(1) :
          /\ d.status = "funded" /\ d.amount = 1000
          /\ ReferredRate(db, d.partner_id) = 5 * 4
          /\ d.commission_amount = Some(5000)

\* C5: a create_loan that stores a loan whose status is not "funded" stores
\* the request's commission_amount and funded_date as they came, absent when
\* absent.
C5_NotFundedPassThrough ==
    \A w \in Workers :
        (DoneOk(w) /\ loc[w].payload.status # Some("funded"))
           => /\ Cardinality(StoredFor(w)) = 1
              /\ \A d \in StoredFor(w) :
                    /\ d.status # "funded"
                    /\ d.commission_amount = loc[w].payload.commission_amount
                    /\ d.funded_date = loc[w].payload.funded_date

C5_Witness ==
    /\ DoneOk(1)
    /\ \E d \in StoredFor(1) :
          /\ d.status = "closed"
          /\ d.commission_amount = Some(7) /\ d.funded_date = None

\* C6: a create_loan that stores a funded loan stores the request's
\* funded_date when it carries one, and otherwise the UTC date of a moment
\* between the request's arrival and its answer.
C6_FundedDate ==
    \A w \in Workers :
        (DoneOk(w) /\ loc[w].payload.status = Some("funded"))
           => /\ Cardinality(StoredFor(w)) = 1
              /\ \A d \in StoredFor(w) :
                    /\ d.status = "funded"
                    /\ IF IsSome(loc[w].payload.funded_date)
                         THEN d.funded_date = loc[w].payload.funded_date
                         ELSE /\ IsSome(d.funded_date)
                              /\ Get(d.funded_date) \in loc[w].started..today

C6_Witness ==
    /\ today = 2
    /\ DoneOk(1)
    /\ loc[1].payload.funded_date = None
    /\ loc[1].started = 1
    /\ \E d \in StoredFor(1) : d.status = "funded" /\ d.funded_date = Some(2)

\* This step is the handler `op` answering the request in flight.
Handled(op) == req.op = op /\ req' = NoRequest

\* The loans a status parameter asks for.
Wanted(store, status) == {d \in Loans(store) : d.status = Get(status)}

\* The items are exactly the loans of `docs`, serialized.
ItemsAre(items, docs) ==
    /\ Len(items) = Cardinality(docs)
    /\ \A d \in docs : \E i \in 1..Len(items) : items[i] = serialize_doc(d)

\* C7 (as claimed): list_loans given any status value returns exactly the
\* stored loans with that status; given none, every stored loan.
C7_ListExactlyStatus ==
    [][(Handled("list_loans") /\ resp'.code = 200)
          => IF IsSome(req.arg)
               THEN ItemsAre(resp'.items, Wanted(db, req.arg))
               ELSE ItemsAre(resp'.items, Loans(db))]_vars

\* C7 (amended): list_loans given a non-empty status value returns exactly the
\* stored loans with that status; given none, or the empty string, every
\* stored loan.
C7_ListNonEmptyStatus ==
    [][(Handled("list_loans") /\ resp'.code = 200)
          => /\ db' = db
             /\ IF IsSome(req.arg) /\ Get(req.arg) # ""
                  THEN ItemsAre(resp'.items, Wanted(db, req.arg))
                  ELSE ItemsAre(resp'.items, Loans(db))]_vars

C7_Witness ==
    /\ resp.op = "list_loans" /\ resp.code = 200
    /\ Len(resp.items) = 2
    /\ \A i \in 1..2 : resp.items[i].status = "funded"
    /\ Len(db.loan) = 3

\* The references of thread w's request resolve: customer_id to a stored
\* Customer, partner_id (if any) to a stored Partner.
Resolvable(w) ==
    /\ IsCustomer(db, Get(loc[w].payload.customer_id))
    /\ IsSome(loc[w].payload.partner_id) => IsPartner(db, Get(loc[w].payload.partner_id))

\* C8 (as claimed): a request during which a store call fails is answered 500
\* and persists nothing.  (Stated of the create_loan requests whose references
\* resolve, which is where it already fails.)
C8_StoreErrorIs500 ==
    \A w \in Workers :
        (Done(w) /\ loc[w].response.store_error /\ Resolvable(w))
           => (loc[w].response.code = 500 /\ StoredFor(w) = {})

\* The stored partners' rates and the stored loans' amounts are in range.
InRange(store) ==
    /\ \A p \in Partners(store) : p.commission_rate >= 0 /\ p.commission_rate <= 100 * 4
    /\ \A d \in Loans(store) : d.amount > 0

\* Thread w's request carries an out-of-range amount.
OutOfRange(w) == IsSome(loc[w].payload.amount) /\ Get(loc[w].payload.amount) <= 0

\* The create_partner request `raw` carries an out-of-range commission_rate.
RateOutOfRange(raw) ==
    /\ IsSome(raw.commission_rate)
    /\ (Get(raw.commission_rate) < 0 \/ Get(raw.commission_rate) > 100 * 4)

\* C9: stored partners have commission_rate in [0, 100] and stored loans have
\* amount > 0; a create_loan request with an out-of-range amount, and a
\* create_partner request with an out-of-range rate handled on the store as
\* it stands, is answered with a validation error naming the field, with no
\* store call made and nothing written; the rates 0 and 100 are stored.
C9_RangesEnforced ==
    /\ InRange(db)
    /\ \A w \in Workers :
          (Done(w) /\ OutOfRange(w))
             => /\ loc[w].response.code = 422
                /\ "amount" \in loc[w].response.invalid
                /\ ~loc[w].response.store_error
                /\ loc[w].response.id = None
    /\ \A raw \in PartnerPayloads, ok \in BOOLEAN :
          LET out == create_partner(db, raw, ok)
          IN  /\ RateOutOfRange(raw)
                    => /\ out.response.code = 422
                       /\ "commission_rate" \in out.response.invalid
                       /\ ~out.response.store_error
                       /\ out.store = db
              /\ (out.response.code = 200 /\ IsSome(raw.commission_rate))
                    => /\ ~RateOutOfRange(raw)
                       /\ out.store.partner[Len(out.store.partner)].commission_rate
                             = Get(raw.commission_rate)
              /\ (ok /\ IsSome(raw.name) /\ ~RateOutOfRange(raw)) => out.response.code = 200

C9_Witness ==
    /\ Done(1) /\ OutOfRange(1)
    /\ loc[1].response.code = 422
    /\ Len(db.partner) = Len(SeedStore.partner) + 1
    /\ DoneOk(2)

\* The loan create_loan stores for `raw`, handled alone on day `day`.
SequentialLoan(raw, day) ==
    LET out == create_loan(db, day, raw, 0)
    IN  out.store.loan[Len(out.store.loan)]

SameButId(d, e) ==
    /\ DOMAIN d = DOMAIN e
    /\ \A k \in DOMAIN d \ {"_id"} : d[k] = e[k]

\* Loan d is what thread w's request asks for: its status, its commission from
\* the referred partner's rate, its funded_date by the rule.
AsRequested(w, d) ==
    LET raw == loc[w].payload
    IN  /\ d.customer_id = Get(raw.customer_id)
        /\ d.partner_id = raw.partner_id
        /\ d.amount = Get(raw.amount)
        /\ d.status = IF IsSome(raw.status) THEN Get(raw.status) ELSE "applied"
        /\ IF raw.status = Some("funded")
             THEN /\ IsSome(d.commission_amount)
                  /\ NearestCent(Get(d.commission_amount), Get(raw.amount),
                                 ReferredRate(db, raw.partner_id))
                  /\ IF IsSome(raw.funded_date)
                       THEN d.funded_date = raw.funded_date
                       ELSE IsSome(d.funded_date)
                            /\ Get(d.funded_date) \in loc[w].started..today
             ELSE /\ d.commission_amount = raw.commission_amount
                  /\ d.funded_date = raw.funded_date

\* Thread w's request refers to the customer and the partner stored from the
\* start (or to no partner).
RefersToStored(w) ==
    /\ DoneValid(w)
    /\ IsCustomer(SeedStore, Get(loc[w].payload.customer_id))
    /\ IsSome(loc[w].payload.partner_id) => IsPartner(SeedStore, Get(loc[w].payload.partner_id))

\* C10: however the steps of two concurrent create_loan requests interleave,
\* with each other and with create_customer and create_partner requests, a
\* request for the stored customer and partner that no store call fails for
\* stores its loan; each stored loan is the one its request would have stored
\* handled alone (status, commission from the partner's rate, funded_date
\* rule), and the two are distinct records.
C10_ConcurrentAsSequential ==
    /\ \A w \in Workers :
          (RefersToStored(w) /\ ~loc[w].response.store_error) => DoneOk(w)
    /\ \A w \in Workers :
          DoneOk(w) =>
             /\ Cardinality(StoredFor(w)) = 1
             /\ \A d \in StoredFor(w) :
                   /\ AsRequested(w, d)
                   /\ \E day \in loc[w].started..today :
                         SameButId(d, SequentialLoan(loc[w].payload, day))
    /\ (\A w \in Workers : DoneOk(w)) =>
          /\ Len(db.loan) = Cardinality(Workers)
          /\ \A v, w \in Workers : v # w => StoredFor(v) # StoredFor(w)

C10_Witness ==
    /\ \A w \in Workers :
          /\ DoneOk(w)
          /\ loc[w].payload.partner_id = Some(PartnerId)
          /\ loc[w].payload.status = Some("funded")
    /\ loc[1].payload.amount # loc[2].payload.amount
    /\ Len(db.loan) = 2
    /\ Len(db.customer) = 2 /\ Len(db.partner) = 2
    /\ \E d \in Loans(db) : d.commission_amount = Some(5000)

====
